---- MODULE Spec2Model ----
(***************************************************************************)
(* Form primitives of npm-demo (src/src/index.ts): the Form container,     *)
(* which owns the submission state and the two field-error stores, the     *)
(* FormField / FormLabel / FormControl / FormMessage context consumers,    *)
(* and the five input components with their prop resolution and their      *)
(* blur / change handlers.                                                  *)
(*                                                                         *)
(* JavaScript values are modelled as strings: Undefined and Null are two   *)
(* reserved strings, "" is the empty string, and Truthy is JavaScript's    *)
(* truthiness on them.  An error map (Record<string, string>) is a total   *)
(* function over Names whose absent keys map to Undefined.                 *)
(***************************************************************************)
EXTENDS Integers, FiniteSets, Sequences, TLC

VARIABLES
    schema,               \* Form's schema prop
    state,                \* useActionState: the current FormState (fieldErrors)
    outcome,              \* the current FormState (success and data)
    onSuccess,            \* Form's onSuccess prop: the identity of the function
    calls,                \* the invocations of onSuccess (history)
    pending,              \* number of dispatched submissions not yet settled
    clientFieldErrors,    \* useState<Record<string, string>>
    clearedServerErrors,  \* useState<Set<string>>
    pendingEffects,       \* passive effects scheduled by the last commit
    last,                 \* the last step taken (history)
    render                \* the last render of an input component (history)

vars == <<schema, state, outcome, onSuccess, calls, pending, clientFieldErrors,
          clearedServerErrors, pendingEffects, last, render>>

(***************************************************************************)
(* Bounds                                                                  *)
(***************************************************************************)
\* distinct object identities a fieldErrors object can have
NumRefs == 2
\* submissions that may be in flight at once
MaxPending == 1
\* distinct functions the parent may pass as onSuccess
NumHandlers == 2
\* invocations of onSuccess followed for one FormState
MaxCalls == 2
\* options a FormRadioGroup may be given
MaxOptions == 2

(***************************************************************************)
(* JavaScript values                                                       *)
(***************************************************************************)
Undefined == "<undefined>"
Null == "<null>"
True == "<true>"
False == "<false>"

Truthy(v) == v \notin {Undefined, Null, False, ""}

\* a || b
Or(a, b) == IF Truthy(a) THEN a ELSE b

\* a ?? b
Nullish(a, b) == IF a \in {Undefined, Null} THEN b ELSE a

\* obj.k, obj[k]: undefined for a key the object lacks
Get(obj, k) == IF k \in DOMAIN obj THEN obj[k] ELSE Undefined

\* The number 7, as a caller may pass it for `field`.
NumericKey == "num:7"

\* String(v), `${v}`
JsString(v) == IF v = NumericKey THEN "7" ELSE v

\* field names mounted in the form, and the values a control can hold
Names == {"email", "role"}
Values == {"good", "bad"}

\* property keys a caller may pass as `field`; "nickname" is in no schema
Keys == {"email", "role", "nickname", "7", "firstName"}

(***************************************************************************)
(* Schemas: the external validation object.  shape[k] is the field schema  *)
(* of key k (present = FALSE: no such key); parse(value) succeeds on the   *)
(* values in accepts and otherwise throws a ZodError whose first issue     *)
(* carries message.                                                        *)
(***************************************************************************)
NoField == [present |-> FALSE, accepts |-> {}, message |-> ""]

NoSchema == [defined |-> FALSE, shape |-> [k \in Keys |-> NoField]]

EmailSchema ==
    [defined |-> TRUE,
     shape |-> [k \in Keys |->
        IF k = "email"
        THEN [present |-> TRUE, accepts |-> {"good"}, message |-> "Invalid email"]
        ELSE NoField]]

FullSchema ==
    [defined |-> TRUE,
     shape |-> [k \in Keys |->
        CASE k = "email" -> [present |-> TRUE, accepts |-> {"good"}, message |-> ""]
          [] k = "role"  -> [present |-> TRUE, accepts |-> {"good"}, message |-> "Required"]
          [] k = "7"     -> [present |-> TRUE, accepts |-> Values, message |-> ""]
          [] k = "firstName" -> [present |-> TRUE, accepts |-> Values, message |-> ""]
          [] OTHER       -> NoField]]

Schemas == {NoSchema, EmailSchema, FullSchema}

(***************************************************************************)
(* FormState.fieldErrors: undefined, or an object with an identity (ref)   *)
(* and its entries.  The effect dependency compares identities.            *)
(***************************************************************************)
ServerMessages == {Undefined, "", "Taken"}
ErrorMaps == [Names -> ServerMessages]
NoErrors == [n \in Names |-> Undefined]

Refs == 1..NumRefs
NoFieldErrors == [ref |-> 0, errs |-> NoErrors]
FieldErrorObjects == [ref : Refs, errs : ErrorMaps]

FormStates == [fieldErrors : {NoFieldErrors} \cup FieldErrorObjects]

\* Object.is on two values of state.fieldErrors
SameObject(a, b) == a.ref = b.ref

\* What the action may return given prevState: no fieldErrors, prevState's own
\* fieldErrors object, or a freshly allocated object.
ActionResults(prevState) ==
    {s \in FormStates :
        \/ s.fieldErrors = NoFieldErrors
        \/ s.fieldErrors = prevState.fieldErrors
        \/ s.fieldErrors.ref \notin {0, prevState.fieldErrors.ref}}

(***************************************************************************)
(* FormState.success and FormState.data, and the onSuccess prop.  The      *)
(* handlers and the reset effect read fieldErrors alone, the onSuccess     *)
(* effect reads success and data alone.                                    *)
(***************************************************************************)
DataValues == {Undefined, "", "saved", "created"}
Outcomes == [success : BOOLEAN, data : DataValues]

\* initialState = { success: false }
NoOutcome == [success |-> FALSE, data |-> Undefined]

\* onSuccess?: 0 is the prop left out, the others are distinct functions
Handlers == 0..NumHandlers

\* No invocation yet; settled: the current FormState is the result of a
\* submission that settled while Form had an onSuccess prop.
NoCalls == [count |-> 0, arg |-> Undefined, valid |-> TRUE, settled |-> FALSE]

(***************************************************************************)
(* Form                                                                    *)
(***************************************************************************)
formId == ":r0:"

validateField(fieldName, value) ==
    IF ~schema.defined THEN Null
    ELSE LET fieldSchema == schema.shape[fieldName] IN
         IF ~fieldSchema.present THEN Null
         ELSE IF value \in fieldSchema.accepts THEN Null
         ELSE Or(fieldSchema.message, "Invalid value")

\* The two useState cells the handlers update, as one record.
ErrorState == [clientFieldErrors |-> clientFieldErrors,
               clearedServerErrors |-> clearedServerErrors]

clearFieldErrorKeepsServerError(es, fieldName) ==
    [clientFieldErrors |-> [es.clientFieldErrors EXCEPT ![fieldName] = Undefined],
     clearedServerErrors |-> es.clearedServerErrors]

clearFieldError(es, fieldName) ==
    [clientFieldErrors |-> [es.clientFieldErrors EXCEPT ![fieldName] = Undefined],
     clearedServerErrors |-> es.clearedServerErrors \cup {fieldName}]

setFieldError(es, fieldName, error) ==
    [clientFieldErrors |-> [es.clientFieldErrors EXCEPT ![fieldName] = error],
     clearedServerErrors |-> es.clearedServerErrors]

\* contextValue.fieldErrors: state.fieldErrors || {}
fieldErrors == state.fieldErrors.errs
isSubmitting == pending > 0

\* The dependency array of the reset effect changed between two renders.
ResetDepsChanged(old, new) == ~SameObject(old.fieldErrors, new.fieldErrors)

\* Body of the reset effect.
ResetEffect(cleared) ==
    IF state.fieldErrors # NoFieldErrors THEN {} ELSE cleared

\* The dependency array [state.success, state.data, onSuccess] changed.
SuccessDepsChanged(old, new, oldHandler, newHandler) ==
    old.success # new.success \/ old.data # new.data \/ oldHandler # newHandler

\* onSuccess(arg) is called: the call is recorded with whether the FormState
\* was a success with truthy data and arg was that data.
Invoke(log, arg) ==
    [log EXCEPT !.count = @ + 1,
                !.arg = arg,
                !.valid = @ /\ outcome.success /\ Truthy(outcome.data) /\ arg = outcome.data]

\* Body of the onSuccess effect.
SuccessEffect(log) ==
    IF outcome.success /\ onSuccess # 0 /\ Truthy(outcome.data)
    THEN Invoke(log, outcome.data)
    ELSE log

(***************************************************************************)
(* FormField, FormLabel, FormControl, FormMessage                          *)
(***************************************************************************)
FieldId(name) == formId \o "-" \o JsString(name)

FormFieldClientFirst(name) ==
    LET serverError == IF name \in clearedServerErrors THEN Null ELSE Get(fieldErrors, name)
        clientError == Get(clientFieldErrors, name)
        errorMessage == Or(clientError, serverError)
    IN [name |-> name,
        fieldId |-> FieldId(name),
        hasError |-> Truthy(errorMessage),
        errorMessage |-> errorMessage]

FormField(name) ==
    LET serverError == IF name \in clearedServerErrors THEN Null ELSE Get(fieldErrors, name)
        clientError == Get(clientFieldErrors, name)
        errorMessage == Or(serverError, clientError)
    IN [name |-> name,
        fieldId |-> FieldId(name),
        hasError |-> Truthy(errorMessage),
        errorMessage |-> errorMessage]

\* {...a, ...b}: the keys of b override those of a
Spread(a, b) == [k \in (DOMAIN a) \cup (DOMAIN b) |-> IF k \in DOMAIN b THEN b[k] ELSE a[k]]

\* const { k1, k2, ...rest } = props
ObjectRest(props, keys) == [k \in (DOMAIN props) \ keys |-> props[k]]

\* Props a caller may hand to FormLabel, to FormMessage and to the child of
\* FormControl.
LabelProps == {[className |-> "c"], [className |-> "c", htmlFor |-> "other"]}
MessageProps == {[className |-> "c"], [className |-> "c", id |-> "other"]}
ChildProps == {[className |-> "c"], [className |-> "c", id |-> "other"]}

\* <label htmlFor={fieldId} className=... {...props} />
FormLabel(name, props) ==
    Spread([htmlFor |-> FormField(name).fieldId], ObjectRest(props, {"className"}))

FormControlAlwaysDescribed(name, childProps) ==
    LET f == FormField(name) IN
    Spread(childProps,
           [id |-> f.fieldId,
            name |-> f.name,
            ariaInvalid |-> IF f.hasError THEN "true" ELSE "false",
            ariaDescribedby |-> f.fieldId \o "-error"])

\* React.cloneElement(children, { id, name, aria-invalid, aria-describedby })
FormControl(name, childProps) ==
    LET f == FormField(name) IN
    Spread(childProps,
           [id |-> f.fieldId,
            name |-> f.name,
            ariaInvalid |-> IF f.hasError THEN "true" ELSE "false",
            ariaDescribedby |-> IF f.hasError THEN f.fieldId \o "-error" ELSE Undefined])

\* null, or <p id={`${fieldId}-error`} className=... {...props}>{errorMessage}</p>
FormMessage(name, props) ==
    LET f == FormField(name) IN
    IF ~f.hasError \/ ~Truthy(f.errorMessage)
    THEN [rendered |-> FALSE, id |-> Undefined, text |-> Undefined]
    ELSE [rendered |-> TRUE,
          id |-> Spread([id |-> f.fieldId \o "-error"], ObjectRest(props, {"className"})).id,
          text |-> f.errorMessage]

\* The message a field displays: the text of the <FormMessage /> the input
\* components render, or Undefined when it renders nothing.
Displayed(name) == FormMessage(name, [className |-> "c"]).text

(***************************************************************************)
(* Input components: the handlers each attaches to its control             *)
(***************************************************************************)
Kinds == {"FormInput", "FormTextarea", "FormSelect", "FormCheckbox", "FormRadioGroup"}
TextKinds == {"FormInput", "FormTextarea"}
PickKinds == {"FormSelect", "FormRadioGroup"}

\* FormInput, FormTextarea, FormSelect: handleBlur
handleBlur(es, name, value) ==
    LET error == validateField(name, value) IN
    IF Truthy(error) THEN setFieldError(es, name, error)
    ELSE clearFieldError(es, name)

handleChangeTextShowsErrors(es, name, value) ==
    LET error == validateField(name, value) IN
    IF Truthy(error) THEN setFieldError(es, name, error)
    ELSE clearFieldError(es, name)

\* FormInput, FormTextarea: handleChange
handleChangeText(es, name, value) ==
    IF Truthy(es.clientFieldErrors[name]) \/ Truthy(fieldErrors[name])
    THEN IF ~Truthy(validateField(name, value)) THEN clearFieldError(es, name) ELSE es
    ELSE es

handleChangePickOnlyClears(es, name, value) ==
    IF ~Truthy(validateField(name, value)) THEN clearFieldError(es, name) ELSE es

\* FormSelect: handleChange; FormRadioGroup: handleRadioChange
handleChangePick(es, name, value) ==
    LET error == validateField(name, value) IN
    IF Truthy(error) THEN setFieldError(es, name, error)
    ELSE clearFieldError(es, name)

\* The blur handler the component of this kind attaches: FormCheckbox and
\* FormRadioGroup attach none.
OnBlur(kind, es, name, value) ==
    IF kind \in {"FormInput", "FormTextarea", "FormSelect"}
    THEN handleBlur(es, name, value)
    ELSE es

OnChange(kind, es, name, value) ==
    CASE kind \in TextKinds -> handleChangeText(es, name, value)
      [] kind \in PickKinds -> handleChangePick(es, name, value)
      [] OTHER -> es

(***************************************************************************)
(* FormSubmit                                                              *)
(***************************************************************************)
\* Props a caller may hand to FormSubmit: children, and any of disabled
\* (true, false or undefined) and type.
SubmitProps ==
    LET base == {[children |-> "Save"]}
        withDisabled == base \cup {Spread(b, [disabled |-> d]) :
                                      b \in base, d \in {True, False, Undefined}}
    IN withDisabled \cup {Spread(b, [type |-> "button"]) : b \in withDisabled}

\* <button type="submit" disabled={isSubmitting || props.disabled} className=...
\*         {...props}>{isSubmitting ? 'Submitting...' : children}</button>
\* where props is what is left of the caller's props without className and
\* children.
FormSubmit(callerProps) ==
    LET props == ObjectRest(callerProps, {"className", "children"})
        attributes == Spread([type |-> "submit",
                              disabled |-> Or(IF isSubmitting THEN True ELSE False,
                                              Get(props, "disabled"))],
                             props)
    IN Spread(attributes,
              [children |-> IF isSubmitting THEN "Submitting..."
                            ELSE Get(callerProps, "children")])

(***************************************************************************)
(* Input components: prop resolution                                       *)
(*                                                                         *)
(* A props object is a function from its own keys to their values; the     *)
(* value of `schema` is a schema (NoSchema: the value undefined), the      *)
(* value of `field` a key, where NumericKey stands for the number 7.       *)
(***************************************************************************)
\* The characters of a key.
Chars(key) ==
    CASE key = "email"     -> <<"e", "m", "a", "i", "l">>
      [] key = "role"      -> <<"r", "o", "l", "e">>
      [] key = "nickname"  -> <<"n", "i", "c", "k", "n", "a", "m", "e">>
      [] key = "7"         -> <<"7">>
      [] key = "firstName" -> <<"f", "i", "r", "s", "t", "N", "a", "m", "e">>

LowerCase == <<"a", "b", "c", "d", "e", "f", "g", "h", "i", "j", "k", "l", "m",
               "n", "o", "p", "q", "r", "s", "t", "u", "v", "w", "x", "y", "z">>
UpperCase == <<"A", "B", "C", "D", "E", "F", "G", "H", "I", "J", "K", "L", "M",
               "N", "O", "P", "Q", "R", "S", "T", "U", "V", "W", "X", "Y", "Z">>

\* c.toUpperCase()
ToUpperCase(c) ==
    IF \E i \in DOMAIN LowerCase : LowerCase[i] = c
    THEN UpperCase[CHOOSE i \in DOMAIN LowerCase : LowerCase[i] = c]
    ELSE c

\* .replace(/([A-Z])/g, ' $1')
RECURSIVE SpaceCapitals(_)
SpaceCapitals(cs) ==
    IF cs = <<>> THEN <<>>
    ELSE (IF \E i \in DOMAIN UpperCase : UpperCase[i] = Head(cs)
          THEN <<" ", Head(cs)>> ELSE <<Head(cs)>>) \o SpaceCapitals(Tail(cs))

\* .replace(/^./, str => str.toUpperCase())
CapitalizeFirst(cs) == IF cs = <<>> THEN cs ELSE <<ToUpperCase(Head(cs))>> \o Tail(cs)

\* .trim()
RECURSIVE Trim(_)
Trim(cs) ==
    IF cs = <<>> THEN cs
    ELSE IF Head(cs) = " " THEN Trim(Tail(cs))
    ELSE IF cs[Len(cs)] = " " THEN Trim(SubSeq(cs, 1, Len(cs) - 1))
    ELSE cs

\* The string of these characters.
RECURSIVE Join(_)
Join(cs) == IF cs = <<>> THEN "" ELSE Head(cs) \o Join(Tail(cs))

humanizeFieldName(fieldName) ==
    Join(Trim(CapitalizeFirst(SpaceCapitals(Chars(fieldName)))))

Threw == [threw |-> TRUE, name |-> Undefined, label |-> Undefined]

getFieldInfoUnchecked(sch, fieldName) ==
    IF ~sch.defined THEN Threw
    ELSE [threw |-> FALSE, name |-> JsString(fieldName),
          label |-> humanizeFieldName(JsString(fieldName))]

getFieldInfo(sch, fieldName) ==
    IF ~sch.defined THEN Threw                      \* TypeError: schema is undefined
    ELSE IF ~sch.shape[JsString(fieldName)].present THEN Threw
    ELSE [threw |-> FALSE, name |-> JsString(fieldName),
          label |-> humanizeFieldName(JsString(fieldName))]

isSchemaProps(props) == "schema" \in DOMAIN props /\ "field" \in DOMAIN props

isContextProps(props) ==
    "field" \in DOMAIN props /\ "name" \notin DOMAIN props /\ "schema" \notin DOMAIN props

\* What resolvedProps evaluates to: it threw, or the resolved object.
Resolved(obj) == [threw |-> FALSE, props |-> obj]
ResolveThrew == [threw |-> TRUE, props |-> [k \in {"name"} |-> Undefined]]

\* { name: schemaInfo.name, label: props.label ?? schemaInfo.label,
\*   required: props.required, ...restProps }
\* restProps holds every key of props but schema and field, label and required
\* among them.
WithSchemaInfo(info, restProps) ==
    IF info.threw THEN ResolveThrew
    ELSE Resolved(Spread([name |-> info.name,
                          label |-> Nullish(Get(restProps, "label"), info.label),
                          required |-> Get(restProps, "required")],
                         restProps))

FormInputResolvedPropsContextSchema(props) ==
    IF "field" \in DOMAIN props /\ "name" \notin DOMAIN props
    THEN IF ~schema.defined THEN ResolveThrew
         ELSE WithSchemaInfo(getFieldInfo(schema, props.field),
                             ObjectRest(props, {"schema", "field"}))
    ELSE Resolved(props)

FormInputResolvedProps(props) ==
    IF isSchemaProps(props)
    THEN WithSchemaInfo(getFieldInfo(props.schema, props.field),
                        ObjectRest(props, {"schema", "field"}))
    ELSE IF isContextProps(props)
    THEN IF ~schema.defined THEN ResolveThrew
         ELSE WithSchemaInfo(getFieldInfo(schema, props.field), ObjectRest(props, {"field"}))
    ELSE Resolved(props)

\* FormTextarea, FormSelect and FormRadioGroup share this resolution.
ContextResolvedProps(props) ==
    IF "field" \in DOMAIN props /\ "name" \notin DOMAIN props
    THEN IF ~schema.defined THEN ResolveThrew
         ELSE WithSchemaInfo(getFieldInfo(schema, props.field), ObjectRest(props, {"field"}))
    ELSE Resolved(props)

FormCheckboxResolvedProps(props) ==
    IF "field" \in DOMAIN props /\ "name" \notin DOMAIN props
    THEN Resolved(Spread([name |-> props.field], ObjectRest(props, {"field"})))
    ELSE Resolved(props)

resolvedProps(kind, props) ==
    CASE kind = "FormInput" -> FormInputResolvedProps(props)
      [] kind = "FormCheckbox" -> FormCheckboxResolvedProps(props)
      [] OTHER -> ContextResolvedProps(props)

\* const { name, label, description, required, className, ...rest } = resolvedProps:
\* the keys of rest, which FormInput, FormTextarea, FormSelect and FormCheckbox
\* spread onto the native element; FormRadioGroup spreads nothing.
Forwarded(kind, obj) ==
    IF kind = "FormRadioGroup" THEN {}
    ELSE (DOMAIN obj) \ {"name", "label", "description", "required", "options",
                          "placeholder", "className"}

\* The ids of the elements a component renders through FormControl inside its
\* FormField, in document order: FormRadioGroup wraps the input of every
\* option in a FormControl, the other components wrap their one control.
ControlIds(kind, obj) ==
    IF kind = "FormRadioGroup"
    THEN [i \in DOMAIN obj.options |->
            FormControl(obj.name, [type |-> "radio", value |-> obj.options[i].value]).id]
    ELSE <<FormControl(obj.name, [className |-> "c"]).id>>

\* {label && <FormLabel>{label}...</FormLabel>}: the label text rendered,
\* undefined when no label element is.
RenderedLabel(obj) ==
    IF Truthy(Get(obj, "label")) THEN obj.label ELSE Undefined

\* The render of one input component: what it threw or what its control carries.
RenderField(kind, props) ==
    LET r == resolvedProps(kind, props) IN
    IF r.threw
    THEN [kind |-> kind, props |-> props, threw |-> TRUE,
          name |-> Undefined, forwarded |-> {},
          label |-> Undefined, htmlFor |-> Undefined, controlIds |-> <<>>]
    ELSE [kind |-> kind, props |-> props, threw |-> FALSE,
          name |-> IF "name" \in DOMAIN r.props THEN r.props.name ELSE Undefined,
          forwarded |-> Forwarded(kind, r.props),
          label |-> RenderedLabel(r.props),
          htmlFor |-> FormLabel(r.props.name, [className |-> "c"]).htmlFor,
          controlIds |-> ControlIds(kind, r.props)]

\* The props objects a caller may pass: every combination of the keys name,
\* field and schema that carries a name or a field.
FieldValues(kind) == IF kind = "FormInput" THEN Keys \cup {NumericKey} ELSE Keys

\* options: the first n of the options "1", "2", ...
Options(n) == [i \in 1..n |-> [value |-> ToString(i), label |-> ToString(i)]]

\* a label the caller may pass: the key left out, undefined, or a text
Labels == {Undefined, "Custom"}

PropsOf(kind) ==
    LET named == {[name |-> n] : n \in Names}
        fielded == {[field |-> f] : f \in FieldValues(kind)}
        both == {[name |-> n, field |-> f] : n \in Names, f \in FieldValues(kind)}
        base == named \cup fielded \cup both
        schemed == base \cup {Spread(b, [schema |-> sch]) : b \in base, sch \in Schemas}
        labelled == schemed \cup {Spread(b, [label |-> l]) : b \in schemed, l \in Labels}
    IN IF kind = "FormRadioGroup"
       THEN {Spread(b, [options |-> Options(n)]) : b \in labelled, n \in 0..MaxOptions}
       ELSE labelled

(***************************************************************************)
(* Steps                                                                   *)
(***************************************************************************)
NoRender == [kind |-> "none", props |-> [name |-> "none"], threw |-> FALSE,
             name |-> Undefined, forwarded |-> {},
             label |-> Undefined, htmlFor |-> Undefined, controlIds |-> <<>>]

\* A step on a field: which component's event it was, what validateField
\* answers for the value the event carried (verdict), and what the field
\* displayed before the step.
FieldStep(op, kind, name, value) ==
    [op |-> op, kind |-> kind, name |-> name,
     verdict |-> validateField(name, value),
     before |-> Displayed(name)]

\* A step of the Form itself; for "effects", after is the step whose commit
\* scheduled them ("mount" or "settle").
FormStep(op, after) ==
    [op |-> op, kind |-> after, name |-> "none", verdict |-> Null, before |-> Undefined]

\* Mount: first render with initialState; the effects of the mount are pending.
Init ==
    /\ schema \in Schemas
    /\ state \in FormStates
    /\ state.fieldErrors.ref \in {0, 1}
    /\ pending = 0
    /\ clientFieldErrors = NoErrors
    /\ clearedServerErrors = {}
    /\ pendingEffects = {"reset"}
    /\ last = FormStep("mount", "none")
    /\ render = NoRender
    /\ outcome = NoOutcome
    /\ onSuccess = 0
    /\ calls = NoCalls

\* Passive effects are flushed before the next event or render is processed.
RunEffects ==
    /\ pendingEffects # {}
    /\ clearedServerErrors' =
          IF "reset" \in pendingEffects THEN ResetEffect(clearedServerErrors)
          ELSE clearedServerErrors
    /\ calls' = IF "onSuccess" \in pendingEffects THEN SuccessEffect(calls) ELSE calls
    /\ pendingEffects' = {}
    /\ last' = FormStep("effects", last.op)
    /\ UNCHANGED <<schema, state, outcome, onSuccess, pending, clientFieldErrors, render>>

\* The form is submitted: formAction dispatches the action.
Submit ==
    /\ pendingEffects = {}
    /\ pending < MaxPending
    /\ pending' = pending + 1
    /\ last' = FormStep("submit", "none")
    /\ UNCHANGED <<schema, state, outcome, onSuccess, calls, clientFieldErrors,
                   clearedServerErrors, pendingEffects, render>>

\* The action's promise resolves: useActionState commits its result, whose
\* fieldErrors are result.fieldErrors and whose success and data are out.
Settle(result, out) ==
    /\ pendingEffects = {}
    /\ pending > 0
    /\ result \in ActionResults(state)
    /\ state' = result
    /\ outcome' = out
    /\ pending' = pending - 1
    /\ pendingEffects' =
          (IF ResetDepsChanged(state, result) THEN {"reset"} ELSE {})
          \cup (IF SuccessDepsChanged(outcome, out, onSuccess, onSuccess)
                THEN {"onSuccess"} ELSE {})
    /\ calls' = IF onSuccess = 0 THEN calls      \* no callback: nothing to follow
                ELSE [calls EXCEPT !.count = 0, !.settled = TRUE]
    /\ last' = FormStep("settle", "none")
    /\ UNCHANGED <<schema, onSuccess, clientFieldErrors, clearedServerErrors, render>>

\* The parent re-renders Form, passing this function as onSuccess.
ParentRender(handler) ==
    /\ pendingEffects = {}
    /\ calls.count < MaxCalls
    /\ onSuccess' = handler
    /\ pendingEffects' = IF SuccessDepsChanged(outcome, outcome, onSuccess, handler)
                         THEN {"onSuccess"} ELSE {}
    /\ last' = FormStep("render", "none")
    /\ UNCHANGED <<schema, state, outcome, calls, pending, clientFieldErrors,
                   clearedServerErrors, render>>

Blur(kind, name, value) ==
    /\ pendingEffects = {}
    /\ LET es == OnBlur(kind, ErrorState, name, value) IN
          /\ clientFieldErrors' = es.clientFieldErrors
          /\ clearedServerErrors' = es.clearedServerErrors
    /\ last' = FieldStep("blur", kind, name, value)
    /\ UNCHANGED <<schema, state, outcome, onSuccess, calls, pending, pendingEffects,
                   render>>

Change(kind, name, value) ==
    /\ pendingEffects = {}
    /\ LET es == OnChange(kind, ErrorState, name, value) IN
          /\ clientFieldErrors' = es.clientFieldErrors
          /\ clearedServerErrors' = es.clearedServerErrors
    /\ last' = FieldStep("change", kind, name, value)
    /\ UNCHANGED <<schema, state, outcome, onSuccess, calls, pending, pendingEffects,
                   render>>

Next ==
    \/ RunEffects
    \/ Submit
    \/ \E result \in FormStates : Settle(result, NoOutcome)
    \/ \E kind \in Kinds, name \in Names, value \in Values : Blur(kind, name, value)
    \/ \E kind \in Kinds, name \in Names, value \in Values : Change(kind, name, value)

Spec == Init /\ [][Next]_vars

\* An input component is rendered inside the mounted Form; render records the
\* first such render.
Render(kind, props) ==
    /\ render = NoRender
    /\ render' = RenderField(kind, props)
    /\ UNCHANGED <<schema, state, outcome, onSuccess, calls, pending, clientFieldErrors,
                   clearedServerErrors, pendingEffects, last>>

NextRender == \E kind \in Kinds : \E props \in PropsOf(kind) : Render(kind, props)

SpecRender == Init /\ [][NextRender]_vars

\* Mount of a Form given an onSuccess prop and an initialState with any
\* success and data; its action reports no field errors.
InitSuccess ==
    /\ schema = NoSchema
    /\ state = [fieldErrors |-> NoFieldErrors]
    /\ outcome \in Outcomes
    /\ onSuccess \in Handlers
    /\ calls = NoCalls
    /\ pending = 0
    /\ clientFieldErrors = NoErrors
    /\ clearedServerErrors = {}
    /\ pendingEffects = {"onSuccess", "reset"}
    /\ last = FormStep("mount", "none")
    /\ render = NoRender

NextSuccess ==
    \/ RunEffects
    \/ Submit
    \/ \E out \in Outcomes : Settle(state, out)
    \/ \E handler \in Handlers : ParentRender(handler)

SpecSuccess == InitSuccess /\ [][NextSuccess]_vars

(***************************************************************************)
(* Properties                                                              *)
(***************************************************************************)
\* The last step was this event of a component of one of these kinds.
LastWas(op, kinds) == last.op = op /\ last.kind \in kinds

\* The field of the last step displayed its server error before the step.
ShowedServerError ==
    /\ Truthy(last.before)
    /\ last.before = fieldErrors[last.name]

\* C1, first half: after a change event on a FormInput or FormTextarea whose
\* field displayed its server error and whose new value validateField accepts,
\* the field displays no error: its name is in clearedServerErrors and it has
\* no client error.
C1_ClearedByEdit ==
    (LastWas("change", TextKinds) /\ ShowedServerError /\ last.verdict = Null)
        => /\ Displayed(last.name) = Undefined
           /\ last.name \in clearedServerErrors
           /\ clientFieldErrors[last.name] = Undefined

\* C1, second half: a field that displays no error starts displaying one only
\* in a step that brings a new submission result (the settlement or the effects
\* it schedules) or in a blur/change of that same field that fails validation.
C1_StaysCleared ==
    \A n \in Names :
        (Displayed(n) = Undefined /\ Displayed(n)' # Undefined)
            => \/ last'.op = "settle"
               \/ last'.op = "effects" /\ last'.kind = "settle"
               \/ /\ last'.op \in {"blur", "change"}
                  /\ last'.name = n
                  /\ Truthy(last'.verdict)

\* C1: Form clears a server error once a text field is edited to validity, and
\* the field stays without a displayed error until a new submission result
\* arrives or a later blur/change on that field fails validation.
C1_ClearsServerErrorOnValidEdit == [](C1_ClearedByEdit) /\ [][C1_StaysCleared]_vars

C1_Witness ==
    /\ LastWas("change", {"FormInput"})
    /\ schema = EmailSchema
    /\ last.name = "email"
    /\ last.before = "Taken"
    /\ last.verdict = Null
    /\ fieldErrors["email"] = "Taken"
    /\ Displayed("email") = Undefined

\* C2: the error maps are mutually exclusive: no field name has both a server
\* error that is still shown (in state.fieldErrors and not in
\* clearedServerErrors) and a client error in clientFieldErrors.
C2_ErrorMapsMutuallyExclusive ==
    \A n \in Names :
        ~(/\ Truthy(fieldErrors[n])
          /\ n \notin clearedServerErrors
          /\ Truthy(clientFieldErrors[n]))

\* The message the merge of the two sources selects for a field.
MergedMessage(n) ==
    IF Truthy(fieldErrors[n]) /\ n \notin clearedServerErrors THEN fieldErrors[n]
    ELSE IF Truthy(clientFieldErrors[n]) THEN clientFieldErrors[n]
    ELSE Undefined

\* C3: FormField's errorMessage for field n is the server error when that is a
\* non-empty string and n is not in clearedServerErrors, otherwise the client
\* error, otherwise nothing; hasError is true exactly when the message is
\* non-empty; a field with a client error or an undismissed server error shows
\* a message.
C3_MessageIsMergeOfServerAndClient ==
    \A n \in Names :
        LET f == FormField(n) IN
        /\ IF MergedMessage(n) = Undefined THEN ~Truthy(f.errorMessage)
           ELSE f.errorMessage = MergedMessage(n)
        /\ f.hasError <=> Truthy(f.errorMessage)
        /\ Displayed(n) = MergedMessage(n)
        /\ clientFieldErrors[n] # Undefined => Displayed(n) # Undefined

C3_Witness ==
    /\ fieldErrors["email"] = "Taken"
    /\ "email" \notin clearedServerErrors
    /\ clientFieldErrors["email"] = "Invalid email"
    /\ Displayed("email") = "Taken"
    /\ fieldErrors["role"] = ""
    /\ Displayed("role") = Undefined

\* C4 as stated: for each of the five input components, a blur or change
\* with a value the schema rejects runs validateField and sets the client
\* error of the field to its message.
C4_EveryComponentValidatesOnBlurAndChange ==
    (last.op \in {"blur", "change"} /\ Truthy(last.verdict))
        => clientFieldErrors[last.name] = last.verdict

\* The events that run validateField and update the error state from its
\* result: blur of FormInput, FormTextarea and FormSelect, change of FormSelect
\* and FormRadioGroup.
Validating ==
    \/ LastWas("blur", {"FormInput", "FormTextarea", "FormSelect"})
    \/ LastWas("change", PickKinds)

C4_ValidatingEvents ==
    Validating =>
        IF Truthy(last.verdict)
        THEN clientFieldErrors[last.name] = last.verdict
        ELSE /\ clientFieldErrors[last.name] = Undefined
             /\ last.name \in clearedServerErrors

\* The events that leave the error state alone: a change of FormInput or
\* FormTextarea with a rejected value, any event of FormCheckbox, a blur of
\* FormRadioGroup.
C4_OtherEvents ==
    (\/ last'.op = "change" /\ last'.kind \in TextKinds /\ Truthy(last'.verdict)
     \/ last'.op \in {"blur", "change"} /\ last'.kind = "FormCheckbox"
     \/ last'.op = "blur" /\ last'.kind = "FormRadioGroup")
        => UNCHANGED <<clientFieldErrors, clearedServerErrors>>

\* C4 (amended): FormInput, FormTextarea and FormSelect on blur, and FormSelect
\* and FormRadioGroup on change, run validateField and update the error state
\* from its result (client error set on rejection, field error cleared on
\* acceptance); a rejected change of FormInput or FormTextarea, every event of
\* FormCheckbox and a blur of FormRadioGroup leave the error state unchanged.
C4_ValidationPerComponent == [](C4_ValidatingEvents) /\ [][C4_OtherEvents]_vars

C4_Witness ==
    /\ LastWas("change", {"FormRadioGroup"})
    /\ last.verdict = "Required"
    /\ clientFieldErrors[last.name] = "Required"

\* C8: when a submission has settled with a FormState that carries fieldErrors
\* and the effects it schedules have run, clearedServerErrors is empty and
\* every field named in the new fieldErrors displays its server error.
C8_ClearedServerErrorsResetOnSettle ==
    (/\ last.op = "settle" \/ (last.op = "effects" /\ last.kind = "settle")
     /\ pendingEffects = {}
     /\ state.fieldErrors # NoFieldErrors)
        => /\ clearedServerErrors = {}
           /\ \A n \in Names : Truthy(fieldErrors[n]) => Displayed(n) = fieldErrors[n]

\* C9, first half: a change of a FormInput or FormTextarea whose field
\* displayed no error leaves it displaying none, whatever the new value.
C9_NoErrorShownByChange ==
    (LastWas("change", TextKinds) /\ last.before = Undefined)
        => Displayed(last.name) = Undefined

\* C9, second half: a change of a FormInput or FormTextarea never adds or
\* replaces an entry of clientFieldErrors, and an event of such a component
\* that adds a client error is a blur of that field with an invalid value.
C9_ErrorsAppearOnBlur ==
    /\ (last'.op = "change" /\ last'.kind \in TextKinds)
          => \A n \in Names : clientFieldErrors'[n] \in {clientFieldErrors[n], Undefined}
    /\ \A n \in Names :
          (/\ last'.kind \in TextKinds
           /\ clientFieldErrors[n] = Undefined
           /\ clientFieldErrors'[n] # Undefined)
              => /\ last'.op = "blur"
                 /\ last'.name = n
                 /\ clientFieldErrors'[n] = last'.verdict

\* C9: for text controls a change only clears errors and never shows new ones;
\* a client error for an invalid value first appears on a blur of the field.
C9_TextChangeOnlyClears == [](C9_NoErrorShownByChange) /\ [][C9_ErrorsAppearOnBlur]_vars

C9_Witness ==
    /\ LastWas("change", {"FormTextarea"})
    /\ last.verdict = "Invalid email"
    /\ last.before = Undefined
    /\ Displayed(last.name) = Undefined

\* C10: after a change of a FormSelect or FormRadioGroup the error the field
\* displays is the validation result of the picked value: none when
\* validateField accepts it, validateField's message when it rejects it.
C10_PickChangeShowsValidationResult ==
    LastWas("change", PickKinds)
        => Displayed(last.name) = (IF Truthy(last.verdict) THEN last.verdict ELSE Undefined)

(***************************************************************************)
(* Properties of prop resolution (SpecRender)                              *)
(***************************************************************************)
\* The keys of a props object that select how its name is resolved.
Shape(props) == (DOMAIN props) \ {"label", "options"}

\* The schema has this key.
HasField(sch, field) == sch.defined /\ sch.shape[JsString(field)].present

\* The render is one of a component given a `field` and no `name`.
FieldWithoutName ==
    /\ render.kind \in Kinds
    /\ "field" \in DOMAIN render.props
    /\ "name" \notin DOMAIN render.props

\* The schema in effect for a props object: the one passed in props, else the
\* one of the Form context.
SchemaInEffect(props) == IF "schema" \in DOMAIN props THEN props.schema ELSE schema

\* C5 as stated: rendering any of the five input components with a `field`
\* (and no `name`) that is not a key of the schema in effect, or with no schema
\* in effect, throws during render and renders no field.
C5_UndefinedFieldThrows ==
    (FieldWithoutName /\ ~HasField(SchemaInEffect(render.props), render.props.field))
        => render.threw /\ render.name = Undefined

\* The schema a component consults: FormInput the `schema` of its props when
\* that key is present, every other component the one of the Form context.
ConsultedSchema(kind, props) ==
    IF kind = "FormInput" /\ "schema" \in DOMAIN props THEN props.schema ELSE schema

\* C5 (amended): FormInput, FormTextarea, FormSelect and FormRadioGroup given a
\* `field` (and no `name`) that is not a key of the schema they consult, or
\* with no such schema, throw during render and render no field; FormCheckbox
\* never consults a schema: it never throws and uses the field as its name.
C5_UndefinedFieldThrowsExceptCheckbox ==
    FieldWithoutName =>
        IF render.kind = "FormCheckbox"
        THEN ~render.threw /\ render.name = render.props.field
        ELSE ~HasField(ConsultedSchema(render.kind, render.props), render.props.field)
                => render.threw /\ render.name = Undefined

C5_Witness ==
    /\ render.kind = "FormSelect"
    /\ render.props = [field |-> "nickname"]
    /\ schema = FullSchema
    /\ render.threw

\* The control carries this name and receives neither `schema` nor `field`.
RendersAs(name) ==
    /\ ~render.threw
    /\ render.name = name
    /\ render.forwarded \cap {"schema", "field"} = {}

\* C6 as stated: each of the five input components accepts each of the three
\* prop shapes: an explicit name resolves to that name, a schema+field pair is
\* looked up in the schema of the props (whatever the Form context holds) and
\* a context-only field in the schema of the Form context, both resolving to
\* String(field); the control carries that name and no `schema` or `field`.
C6_ThreeShapesResolveToOneName ==
    render.kind \in Kinds =>
        LET props == render.props IN
        /\ Shape(props) = {"name"} => RendersAs(props.name)
        /\ (Shape(props) = {"field", "schema"} /\ HasField(props.schema, props.field))
              => RendersAs(JsString(props.field))
        /\ (Shape(props) = {"field"} /\ HasField(schema, props.field))
              => RendersAs(JsString(props.field))

\* C6 (amended): every component resolves an explicit name to that name;
\* FormInput, FormTextarea, FormSelect and FormRadioGroup resolve a
\* context-only field through the Form-context schema to String(field), and
\* FormCheckbox resolves it to the field without any lookup; only FormInput
\* looks a schema+field pair up in the schema of the props.  Given such a pair,
\* FormTextarea, FormSelect and FormRadioGroup ignore the schema of the props
\* and resolve the field through the Form-context schema (throwing when that
\* lacks it), FormCheckbox uses the field as it is, and FormTextarea, FormSelect
\* and FormCheckbox forward the `schema` prop to the native element.
C6_ShapesResolvedPerComponent ==
    render.kind \in Kinds =>
        LET props == render.props
            kind == render.kind
        IN
        /\ Shape(props) = {"name"} => RendersAs(props.name)
        /\ Shape(props) = {"field"} =>
              IF kind = "FormCheckbox" THEN RendersAs(props.field)
              ELSE HasField(schema, props.field) => RendersAs(JsString(props.field))
        /\ Shape(props) = {"field", "schema"} =>
              CASE kind = "FormInput" ->
                      HasField(props.schema, props.field) => RendersAs(JsString(props.field))
                [] kind = "FormCheckbox" ->
                      /\ ~render.threw
                      /\ render.name = props.field
                      /\ render.forwarded \cap {"schema", "field"} = {"schema"}
                [] OTHER ->
                      /\ render.threw <=> ~HasField(schema, props.field)
                      /\ ~render.threw =>
                            /\ render.name = JsString(props.field)
                            /\ render.forwarded \cap {"schema", "field"} =
                                  (IF kind = "FormRadioGroup" THEN {} ELSE {"schema"})

C6_Witness ==
    /\ render.kind = "FormInput"
    /\ render.props = [field |-> NumericKey, schema |-> FullSchema]
    /\ schema = NoSchema
    /\ ~render.threw
    /\ render.name = "7"
    /\ render.forwarded = {}

(***************************************************************************)
(* Field identity and ARIA linkage                                         *)
(***************************************************************************)
\* The elements of field n are consistently linked, for these caller props.
Linked(n, labelProps, messageProps, childProps) ==
    LET f == FormField(n)
        label == FormLabel(n, labelProps)
        control == FormControl(n, childProps)
        message == FormMessage(n, messageProps)
        described == message.rendered /\ message.id = f.fieldId \o "-error"
    IN /\ f.fieldId = formId \o "-" \o n
       /\ control.id = f.fieldId
       /\ label.htmlFor = f.fieldId
       /\ IF described
          THEN control.ariaInvalid = "true" /\ control.ariaDescribedby = f.fieldId \o "-error"
          ELSE control.ariaInvalid = "false" /\ control.ariaDescribedby = Undefined

\* C7 as stated: in every render fieldId is formId-name, the control has id
\* fieldId, a FormLabel has htmlFor fieldId, and the control has aria-invalid
\* 'true' and aria-describedby fieldId-error exactly when FormMessage renders
\* an element with that id (otherwise 'false' and absent).
C7_IdentityAndAriaLinkage ==
    \A n \in Names, lp \in LabelProps, mp \in MessageProps, cp \in ChildProps :
        Linked(n, lp, mp, cp)

\* C7 (amended): the same, for a FormLabel whose caller passes no htmlFor and a
\* FormMessage whose caller passes no id (both spread the caller's props last,
\* so a caller's htmlFor or id replaces the derived one); the id of the control
\* is fieldId whatever id its element was given.
C7_IdentityAndAriaLinkageByDefault ==
    \A n \in Names, lp \in LabelProps, mp \in MessageProps, cp \in ChildProps :
        ("htmlFor" \notin DOMAIN lp /\ "id" \notin DOMAIN mp) => Linked(n, lp, mp, cp)

C7_Witness ==
    /\ FormField("email").hasError
    /\ FormMessage("email", [className |-> "c"]).id = ":r0:-email-error"
    /\ FormControl("email", [className |-> "c", id |-> "other"]).ariaDescribedby
          = ":r0:-email-error"
    /\ ~FormField("role").hasError
    /\ FormControl("role", [className |-> "c"]).ariaInvalid = "false"
    /\ last.op = "blur"

(***************************************************************************)
(* Submit button                                                           *)
(***************************************************************************)
\* C11: while a submission is pending FormSubmit renders a button of type
\* submit that is disabled and labelled 'Submitting...', whatever props the
\* caller passed; when none is pending it is disabled exactly when the
\* caller's disabled prop is truthy and shows its children.
C11_SubmitDisabledWhilePending ==
    \A p \in SubmitProps :
        LET button == FormSubmit(p) IN
        IF isSubmitting
        THEN /\ button.type = "submit"
             /\ button.disabled = True
             /\ button.children = "Submitting..."
        ELSE /\ Truthy(button.disabled) <=> Truthy(Get(p, "disabled"))
             /\ button.children = p.children

(***************************************************************************)
(* onSuccess                                                               *)
(***************************************************************************)
\* C12: onSuccess is called only when the current FormState has success =
\* true and truthy data, with that data as its argument, and at most once for
\* each settled submission: a re-render that brings no new submission result
\* (the parent passing a new onSuccess function) never calls it again.
C12_OnSuccessOncePerResult ==
    /\ calls.valid
    /\ calls.settled => calls.count <= 1

(***************************************************************************)
(* Control ids and labels (SpecRender)                                     *)
(***************************************************************************)
\* C13: a field id identifies a single control: in every render of an input
\* component no two elements rendered through FormControl carry the same id,
\* so the htmlFor of the field's FormLabel designates exactly one control; a
\* FormRadioGroup with two or more options included.
C13_FieldIdIdentifiesOneControl ==
    (render.kind \in Kinds /\ ~render.threw) =>
        LET ids == render.controlIds IN
        /\ \A i, j \in DOMAIN ids : i # j => ids[i] # ids[j]
        /\ Cardinality({i \in DOMAIN ids : ids[i] = render.htmlFor}) <= 1

\* The component resolved its props through a schema.
ResolvedThroughSchema ==
    /\ render.kind \in Kinds \ {"FormCheckbox"}
    /\ ~render.threw
    /\ IF render.kind = "FormInput"
       THEN isSchemaProps(render.props) \/ isContextProps(render.props)
       ELSE "field" \in DOMAIN render.props /\ "name" \notin DOMAIN render.props

\* C14: FormInput, FormTextarea, FormSelect and FormRadioGroup resolved through
\* a schema render the caller's label when the caller supplies a label value
\* and otherwise humanizeFieldName(field), whether the label key is absent or
\* present with the value undefined; humanizeFieldName("firstName") is
\* "First Name".
C14_LabelDefaultsToHumanizedName ==
    /\ humanizeFieldName("firstName") = "First Name"
    /\ ResolvedThroughSchema =>
          render.label =
              IF Get(render.props, "label") # Undefined
              THEN render.props.label
              ELSE humanizeFieldName(JsString(render.props.field))

====
